---- MODULE Spec2Model ----
(***************************************************************************)
(* Scroll state of an editor view (crates/editor/src/scroll.rs):           *)
(* ScrollAnchor, OngoingScroll, ScrollManager and the Editor entry points  *)
(* that drive them.                                                        *)
(*                                                                         *)
(* Numbers.  Vertical positions are f32 row counts in the source; here a   *)
(* vertical position is an integer number of 1/Scale rows, so Scale units  *)
(* are one display row and `y as u32` is y \div Scale.  Horizontal         *)
(* positions and scroll deltas are integers.  Time is in milliseconds.     *)
(*                                                                         *)
(* Options.  Option<T> is a sequence: <<>> is None and <<v>> is Some(v).   *)
(***************************************************************************)
EXTENDS Integers, Sequences, FiniteSets, TLC

VARIABLES
    anchor,               \* ScrollManager.anchor : ScrollAnchor
    ongoing,              \* ScrollManager.ongoing : OngoingScroll
    autoscroll_request,   \* ScrollManager.autoscroll_request : Option<(Autoscroll, bool)>
    show_scrollbars,      \* ScrollManager.show_scrollbars : bool
    hide_scrollbar_task,  \* ScrollManager.hide_scrollbar_task : Option<Task<()>> (a task id)
    tasks,                \* every hide task spawned so far, by id (foreground executor)
    autohide,             \* the global ScrollbarAutoHide(bool)
    display_map,          \* the editor's current DisplaySnapshot
    workspace_id,         \* Editor.workspace_id : Option<i64>
    saves,                \* save_scroll_position calls in flight on the background executor
    db,                   \* the stored scroll position of this item: Option<(top_row, x, y)>
    now,                  \* Instant::now(), in ms
    last_autoscroll,      \* ScrollManager.last_autoscroll : Option<(offset, .., strategy)>
    visible_line_count,   \* ScrollManager.visible_line_count : Option<f32>
    vertical_scroll_margin, \* ScrollManager.vertical_scroll_margin, in rows
    other,                \* the ScrollManager of another editor, as clone_state reads it
    last                  \* the operation that made this state: arguments, results, emissions

vars == <<anchor, ongoing, autoscroll_request, show_scrollbars, hide_scrollbar_task,
          tasks, autohide, display_map, workspace_id, saves, db, now, last_autoscroll,
          visible_line_count, vertical_scroll_margin, other, last>>

\* the fields only the layout pass, the setters and clone_state touch
layout_state == <<last_autoscroll, visible_line_count, vertical_scroll_margin, other>>

----------------------------------------------------------------------------
(* Bounds of the model *)

Scale == 2        \* vertical units per display row
MaxRow == 1       \* buffer rows are 0..MaxRow
MaxY == 5         \* largest vertical target, in 1/Scale rows
MaxX == 2         \* largest horizontal target / clamp bound
MaxTasks == 2     \* hide tasks spawned in one behaviour
MaxSaves == 2     \* saves in flight at once
MaxNow == 100     \* the clock stops advancing here

(* Program constants *)

SCROLL_EVENT_SEPARATION == 28
UNLOCK_LOWER_BOUND == 6
UNLOCK_PERCENT_TENTHS == 19     \* UNLOCK_PERCENT = 1.9, in tenths
DEFAULT_VERTICAL_SCROLL_MARGIN == 3

----------------------------------------------------------------------------
(* Vectors *)

vec2f(x_, y_) == [x |-> x_, y |-> y_]

MaxOf(a, b) == IF a >= b THEN a ELSE b
MinOf(a, b) == IF a <= b THEN a ELSE b
Abs(a) == IF a < 0 THEN 0 - a ELSE a

\* Vector2F::max: the elementwise maximum
VecMax(v, w) == vec2f(MaxOf(v.x, w.x), MaxOf(v.y, w.y))

----------------------------------------------------------------------------
(* The buffer, its anchors and the display snapshots                        *)
(*                                                                          *)
(* A buffer point is (row, column).  A display snapshot is the set of the   *)
(* buffer points at which its display rows start: (0,0) always starts one;  *)
(* (r, WrapColumn) starts one when row r is soft-wrapped; (r, 0) starts     *)
(* none when row r is folded into the display row before it.                *)

WrapColumn == 4

Points == [row : 0..MaxRow, column : {0, WrapColumn}]

PointZero == [row |-> 0, column |-> 0]

PointLE(p, q) == p.row < q.row \/ (p.row = q.row /\ p.column <= q.column)

Snapshots == {s \in SUBSET Points : PointZero \in s}

\* Anchor::min(): no excerpt, the start of the buffer
AnchorMin == [excerpt_id |-> 0, row |-> 0, column |-> 0]

\* MultiBufferSnapshot::anchor_at: an anchor in the buffer's excerpt
anchor_at(point, bias) == [excerpt_id |-> 1, row |-> point.row, column |-> point.column]

Anchors == {AnchorMin} \cup {anchor_at(p, "Right") : p \in Points}

\* Anchor::to_point
anchor_to_point(a) == [row |-> a.row, column |-> a.column]

\* the last display row of a snapshot
max_display_row(map) == Cardinality(map) - 1

\* DisplayPoint::new(row, 0).to_point(map): rows past the end clip to the last one
display_row_to_point(row, map) ==
    LET r == MinOf(row, max_display_row(map))
    IN  CHOOSE p \in map : Cardinality({q \in map : PointLE(q, p)}) = r + 1

\* point.to_display_point(map).row()
point_to_display_row(point, map) == Cardinality({q \in map : PointLE(q, point)}) - 1

\* Anchor::to_display_point(map).row()
anchor_to_display_row(a, map) == point_to_display_row(anchor_to_point(a), map)

----------------------------------------------------------------------------
(* ScrollAnchor *)

ScrollAnchorNew == [offset |-> vec2f(0, 0), top_anchor |-> AnchorMin]

\* mutant: the sentinel branch keeps offset.y instead of writing 0
scroll_position_keeps_offset(a, snapshot) ==
    IF a.top_anchor # AnchorMin
    THEN vec2f(a.offset.x, anchor_to_display_row(a.top_anchor, snapshot) * Scale + a.offset.y)
    ELSE a.offset

scroll_position(a, snapshot) ==
    IF a.top_anchor # AnchorMin
    THEN vec2f(a.offset.x, anchor_to_display_row(a.top_anchor, snapshot) * Scale + a.offset.y)
    ELSE vec2f(a.offset.x, 0)

top_row(a) == anchor_to_point(a.top_anchor).row

----------------------------------------------------------------------------
(* Bookkeeping: what the last operation was given, returned and emitted *)

NoAxis == "None"

LastNone ==
    [op |-> "new",
     position |-> vec2f(0, 0),    \* the target of set_scroll_position
     top_row |-> 0,               \* the top_row handed to set_anchor
     max |-> 0,                   \* the argument of clamp_scroll_left
     result |-> FALSE,            \* the bool an operation returned
     task |-> 0,                  \* the hide task that ran
     events |-> <<>>,             \* Event::ScrollPositionChanged { local } emitted, in order
     notified |-> <<>>,           \* cx.notify() calls, by caller, in order
     had_request |-> FALSE,       \* an autoscroll request was pending before the call
     spawned_save |-> FALSE,      \* the call spawned a save
     delta |-> vec2f(0, 0),       \* the delta given to filter
     filtered |-> vec2f(0, 0),    \* the delta as filter left it
     axis |-> NoAxis,             \* the axis filter returned / update_ongoing_scroll got
     local |-> TRUE,              \* the local flag the operation was given
     lookup |-> "",               \* what DB.get_scroll_position returned: error, none, found
     was_axis |-> NoAxis,         \* ongoing.axis before a scroll event
     within |-> FALSE]            \* the scroll event came within the separation threshold

----------------------------------------------------------------------------
(* ScrollManager::show_scrollbar, as the state it leaves *)

\* a hide task: its timer, whether its handle was dropped (which cancels it),
\* and whether the executor has polled it since its timer woke it
NewTask == [timer |-> "pending", dropped |-> FALSE, polled |-> FALSE]

\* mutant: the replaced task is detached instead of dropped
drop_hide_task_detached(ts) == ts

\* dropping the Task handle held in hide_scrollbar_task cancels that task
drop_hide_task(ts) ==
    IF hide_scrollbar_task = <<>>
    THEN ts
    ELSE [ts EXCEPT ![hide_scrollbar_task[1]].dropped = TRUE]

\* mutant: with auto-hide off the pending task is left to run
show_scrollbar_tasks_keeps_timer ==
    IF autohide
    THEN Append(drop_hide_task(tasks), NewTask)
    ELSE tasks

\* lines 247-259: the task list after show_scrollbar
show_scrollbar_tasks ==
    IF autohide
    THEN Append(drop_hide_task(tasks), NewTask)
    ELSE drop_hide_task(tasks)

\* lines 247-259: hide_scrollbar_task after show_scrollbar
show_scrollbar_handle ==
    IF autohide THEN <<Len(tasks) + 1>> ELSE <<>>

\* mutant: every call notifies
show_scrollbar_notified_always == <<"show_scrollbar">>

\* lines 242-245: cx.notify() only when the scrollbar was hidden
show_scrollbar_notified ==
    IF ~show_scrollbars THEN <<"show_scrollbar">> ELSE <<>>

\* the model spawns at most MaxTasks hide tasks
CanSpawnHideTask == autohide => Len(tasks) < MaxTasks

show_scrollbar ==
    /\ CanSpawnHideTask
    /\ show_scrollbars' = TRUE
    /\ tasks' = show_scrollbar_tasks
    /\ hide_scrollbar_task' = show_scrollbar_handle
    /\ last' = [LastNone EXCEPT !.op = "show_scrollbar",
                                !.notified = show_scrollbar_notified]
    /\ UNCHANGED <<anchor, ongoing, autoscroll_request, autohide, display_map,
                   workspace_id, saves, db, now>>
    /\ UNCHANGED layout_state

\* the timer of task id elapses on the background executor and wakes the task
timer_elapsed(id) ==
    /\ id \in 1..Len(tasks)
    /\ tasks[id].timer = "pending"
    /\ tasks' = [tasks EXCEPT ![id].timer = "elapsed"]
    /\ last' = [LastNone EXCEPT !.op = "timer_elapsed", !.task = id]
    /\ UNCHANGED <<anchor, ongoing, autoscroll_request, show_scrollbars,
                   hide_scrollbar_task, autohide, display_map, workspace_id,
                   saves, db, now>>
    /\ UNCHANGED layout_state

\* a Task whose handle was dropped is cancelled: its future is never polled again
task_cancelled(id) == tasks[id].dropped

\* mutant: the woken task leaves the scrollbar as it is
hide_task_visibility_kept(id) == show_scrollbars

\* lines 250-255: show_scrollbars after the woken task was polled
hide_task_visibility(id) ==
    IF task_cancelled(id) THEN show_scrollbars ELSE FALSE

\* the foreground executor polls the woken task id
hide_task_runs(id) ==
    /\ id \in 1..Len(tasks)
    /\ tasks[id].timer = "elapsed"
    /\ ~tasks[id].polled
    /\ tasks' = [tasks EXCEPT ![id].polled = TRUE]
    /\ show_scrollbars' = hide_task_visibility(id)
    /\ last' = [LastNone EXCEPT !.op = "hide_task_runs", !.task = id,
                    !.notified = IF task_cancelled(id) THEN <<>> ELSE <<"hide_task">>]
    /\ UNCHANGED <<anchor, ongoing, autoscroll_request, hide_scrollbar_task,
                   autohide, display_map, workspace_id, saves, db, now>>
    /\ UNCHANGED layout_state

\* the ScrollbarAutoHide global is set
set_autohide(b) ==
    /\ autohide # b
    /\ autohide' = b
    /\ last' = [LastNone EXCEPT !.op = "set_autohide", !.result = b]
    /\ UNCHANGED <<anchor, ongoing, autoscroll_request, show_scrollbars,
                   hide_scrollbar_task, tasks, display_map, workspace_id,
                   saves, db, now>>
    /\ UNCHANGED layout_state

----------------------------------------------------------------------------
(* ScrollManager::set_anchor *)

\* lines 221-237: the saves in flight after set_anchor
spawn_save(new_anchor, row) ==
    IF workspace_id # <<>>
    THEN Append(saves, [top_row |-> row, x |-> new_anchor.offset.x,
                        y |-> new_anchor.offset.y])
    ELSE saves

\* mutant: the pending request is left in place
keep_autoscroll_request == autoscroll_request

\* line 220: self.autoscroll_request.take()
take_autoscroll_request == <<>>

\* line 217: self.anchor = anchor
assign_anchor(new_anchor) == new_anchor

\* mutant: an explicit scroll also forgets the last autoscroll
set_anchor_last_autoscroll_cleared == <<>>

\* lines 209-239: set_anchor does not write last_autoscroll
set_anchor_last_autoscroll == last_autoscroll

\* mutant: every event is tagged local
emit_scroll_position_changed_local(local) == <<TRUE>>

\* line 218: cx.emit(Event::ScrollPositionChanged { local })
emit_scroll_position_changed(local) == <<local>>

\* the model keeps at most MaxSaves saves in flight
CanSpawnSave == workspace_id # <<>> => Len(saves) < MaxSaves

set_anchor(new_anchor, row, local, op, position) ==
    /\ CanSpawnHideTask
    /\ CanSpawnSave
    /\ anchor' = assign_anchor(new_anchor)
    /\ show_scrollbars' = TRUE
    /\ tasks' = show_scrollbar_tasks
    /\ hide_scrollbar_task' = show_scrollbar_handle
    /\ autoscroll_request' = take_autoscroll_request
    /\ saves' = spawn_save(new_anchor, row)
    /\ last' = [LastNone EXCEPT !.op = op,
                                !.position = position,
                                !.top_row = row,
                                !.local = local,
                                !.events = emit_scroll_position_changed(local),
                                !.notified = show_scrollbar_notified \o <<"set_anchor">>,
                                !.had_request = (autoscroll_request # <<>>),
                                !.spawned_save = (workspace_id # <<>>)]
    /\ last_autoscroll' = set_anchor_last_autoscroll
    /\ UNCHANGED <<ongoing, autohide, display_map, workspace_id, db, now>>
    /\ UNCHANGED <<visible_line_count, vertical_scroll_margin, other>>

----------------------------------------------------------------------------
(* ScrollManager::set_scroll_position *)

\* mutant: the sub-row offset is taken from the requested row, not from the
\* display row the anchor resolves to
new_anchor_requested_row(position, map) ==
    IF position.y <= 0
    THEN [top_anchor |-> AnchorMin, offset |-> VecMax(position, vec2f(0, 0))]
    ELSE LET scroll_top_buffer_point == display_row_to_point(position.y \div Scale, map)
             top_anchor == anchor_at(scroll_top_buffer_point, "Right")
         IN  [top_anchor |-> top_anchor,
              offset |-> vec2f(position.x,
                               position.y - (position.y \div Scale) * Scale)]

\* mutant: the target is not clamped at the top of the buffer
new_anchor_unclamped(position, map) ==
    IF position.y <= 0
    THEN [top_anchor |-> AnchorMin, offset |-> position]
    ELSE LET scroll_top_buffer_point == display_row_to_point(position.y \div Scale, map)
             top_anchor == anchor_at(scroll_top_buffer_point, "Right")
         IN  [top_anchor |-> top_anchor,
              offset |-> vec2f(position.x,
                               position.y - anchor_to_display_row(top_anchor, map) * Scale)]

\* mutant: at the top of the buffer only y is clamped
new_anchor_passes_x(position, map) ==
    IF position.y <= 0
    THEN [top_anchor |-> AnchorMin, offset |-> vec2f(position.x, 0)]
    ELSE LET scroll_top_buffer_point == display_row_to_point(position.y \div Scale, map)
             top_anchor == anchor_at(scroll_top_buffer_point, "Right")
         IN  [top_anchor |-> top_anchor,
              offset |-> vec2f(position.x,
                               position.y - anchor_to_display_row(top_anchor, map) * Scale)]

\* lines 179-204: the anchor for a target position
new_anchor(position, map) ==
    IF position.y <= 0
    THEN [top_anchor |-> AnchorMin, offset |-> VecMax(position, vec2f(0, 0))]
    ELSE LET scroll_top_buffer_point == display_row_to_point(position.y \div Scale, map)
             top_anchor == anchor_at(scroll_top_buffer_point, "Right")
         IN  [top_anchor |-> top_anchor,
              offset |-> vec2f(position.x,
                               position.y - anchor_to_display_row(top_anchor, map) * Scale)]

\* mutant: the display row is handed on as if it were the buffer row
new_top_row_display(position, map) ==
    IF position.y <= 0
    THEN 0
    ELSE MinOf(position.y \div Scale, max_display_row(map))

\* lines 179-204: the top row for a target position
new_top_row(position, map) ==
    IF position.y <= 0
    THEN 0
    ELSE display_row_to_point(position.y \div Scale, map).row

\* Editor::set_scroll_position_internal: the snapshot is the display map's current one
set_scroll_position(position, local) ==
    set_anchor(new_anchor(position, display_map), new_top_row(position, display_map),
               local, "set_scroll_position", position)

\* Editor::set_scroll_anchor (local) and Editor::set_scroll_anchor_remote
set_scroll_anchor(scroll_anchor, local) ==
    set_anchor(scroll_anchor, top_row(scroll_anchor), local,
               IF local THEN "set_scroll_anchor" ELSE "set_scroll_anchor_remote",
               vec2f(0, 0))

----------------------------------------------------------------------------
(* ScrollManager::clamp_scroll_left *)

\* mutant: the clamp rebuilds the offset from the bound
clamp_scroll_left_anchor_rebuilt(max) ==
    IF max < anchor.offset.x
    THEN [top_anchor |-> anchor.top_anchor, offset |-> vec2f(max, 0)]
    ELSE anchor

\* lines 271-273: self.anchor.offset.set_x(max)
clamp_scroll_left_anchor(max) ==
    IF max < anchor.offset.x
    THEN [anchor EXCEPT !.offset.x = max]
    ELSE anchor

\* mutant: a bound equal to the offset counts as a change
clamp_scroll_left_result_inclusive(max) == max <= anchor.offset.x

clamp_scroll_left_result(max) == max < anchor.offset.x

clamp_scroll_left(max) ==
    /\ anchor' = clamp_scroll_left_anchor(max)
    /\ last' = [LastNone EXCEPT !.op = "clamp_scroll_left", !.max = max,
                                !.result = clamp_scroll_left_result(max)]
    /\ UNCHANGED <<ongoing, autoscroll_request, show_scrollbars, hide_scrollbar_task,
                   tasks, autohide, display_map, workspace_id, saves, db, now>>
    /\ UNCHANGED layout_state

----------------------------------------------------------------------------
(* Collaborators *)

\* request_autoscroll: the request replaces any pending one
request_autoscroll(autoscroll, local) ==
    /\ autoscroll_request' = <<[autoscroll |-> autoscroll, local |-> local]>>
    /\ last' = [LastNone EXCEPT !.op = "request_autoscroll",
                                !.had_request = (autoscroll_request # <<>>)]
    /\ UNCHANGED <<anchor, ongoing, show_scrollbars, hide_scrollbar_task, tasks,
                   autohide, display_map, workspace_id, saves, db, now>>
    /\ UNCHANGED layout_state

\* the display map changes (a fold, a new wrap width): the buffer is not edited
display_map_changed(map) ==
    /\ map # display_map
    /\ display_map' = map
    /\ last' = [LastNone EXCEPT !.op = "display_map_changed"]
    /\ UNCHANGED <<anchor, ongoing, autoscroll_request, show_scrollbars,
                   hide_scrollbar_task, tasks, autohide, workspace_id, saves, db, now>>
    /\ UNCHANGED layout_state

\* DB.save_scroll_position completes: the row for this item is written
save_succeeds(i) ==
    /\ i \in 1..Len(saves)
    /\ db' = <<saves[i]>>
    /\ saves' = [j \in 1..(Len(saves) - 1) |-> IF j < i THEN saves[j] ELSE saves[j + 1]]
    /\ last' = [LastNone EXCEPT !.op = "save_succeeds"]
    /\ UNCHANGED <<anchor, ongoing, autoscroll_request, show_scrollbars,
                   hide_scrollbar_task, tasks, autohide, display_map, workspace_id, now>>
    /\ UNCHANGED layout_state

\* mutant: a failed save stays in flight, to run again
saves_after_failure_retry(i) == saves

\* lines 233-234: the saves in flight after save i failed: log_err() drops the error
saves_after_failure(i) ==
    [j \in 1..(Len(saves) - 1) |-> IF j < i THEN saves[j] ELSE saves[j + 1]]

\* DB.save_scroll_position fails
save_fails(i) ==
    /\ i \in 1..Len(saves)
    /\ saves' = saves_after_failure(i)
    /\ last' = [LastNone EXCEPT !.op = "save_fails"]
    /\ UNCHANGED <<anchor, ongoing, autoscroll_request, show_scrollbars,
                   hide_scrollbar_task, tasks, autohide, display_map, workspace_id,
                   db, now>>
    /\ UNCHANGED layout_state

----------------------------------------------------------------------------
(* Editor::read_scroll_position_from_db *)

\* line 404: DB.get_scroll_position: an error, or the stored record if any
get_scroll_position(fails) ==
    IF fails THEN [ok |-> FALSE, record |-> <<>>] ELSE [ok |-> TRUE, record |-> db]

\* mutant: without a usable record a default one is restored
restore_record_default(stored) ==
    IF stored.ok /\ stored.record # <<>>
    THEN stored.record
    ELSE <<[top_row |-> 0, x |-> 0, y |-> 0]>>

\* line 405: if let Ok(Some((top_row, x, y))) = scroll_position
restore_record(stored) ==
    IF stored.ok THEN stored.record ELSE <<>>

\* lines 406-413: the anchor built from a record
restored_anchor(record) ==
    [top_anchor |-> anchor_at([row |-> record.top_row, column |-> 0], "Left"),
     offset |-> vec2f(record.x, record.y)]

\* the whole call: with a record it is set_scroll_anchor (line 414), otherwise
\* the body is skipped
read_scroll_position_from_db(fails) ==
    LET stored == get_scroll_position(fails)
        record == restore_record(stored)
    IN  IF record # <<>>
        THEN set_scroll_anchor(restored_anchor(record[1]), TRUE)
        ELSE /\ last' = [LastNone EXCEPT !.op = "read_scroll_position_from_db",
                             !.lookup = IF stored.ok THEN "none" ELSE "error"]
             /\ UNCHANGED <<anchor, ongoing, autoscroll_request, show_scrollbars,
                            hide_scrollbar_task, tasks, autohide, display_map,
                            workspace_id, saves, db, now>>
             /\ UNCHANGED layout_state

----------------------------------------------------------------------------
(* ScrollManager::clone_state and the layout-driven fields *)

\* a ScrollManager other than this editor's, as ScrollManager::new makes it
ManagerNew ==
    [anchor |-> ScrollAnchorNew,
     ongoing |-> [last_event |-> 0, axis |-> NoAxis],
     autoscroll_request |-> <<>>,
     last_autoscroll |-> <<>>,
     show_scrollbars |-> TRUE,
     hide_scrollbar_task |-> <<>>,
     visible_line_count |-> <<>>,
     vertical_scroll_margin |-> DEFAULT_VERTICAL_SCROLL_MARGIN]

\* and one that was scrolled, laid out and left alone until its scrollbar hid
ManagerScrolled ==
    [anchor |-> [top_anchor |-> anchor_at([row |-> MaxRow, column |-> 0], "Right"),
                 offset |-> vec2f(1, 1)],
     ongoing |-> [last_event |-> SCROLL_EVENT_SEPARATION \div 2, axis |-> "Vertical"],
     autoscroll_request |-> <<[autoscroll |-> "center", local |-> FALSE]>>,
     last_autoscroll |-> <<[offset |-> vec2f(1, 0), strategy |-> "center"]>>,
     show_scrollbars |-> FALSE,
     hide_scrollbar_task |-> <<1>>,
     visible_line_count |-> <<2 * DEFAULT_VERTICAL_SCROLL_MARGIN>>,
     vertical_scroll_margin |-> DEFAULT_VERTICAL_SCROLL_MARGIN + 1]

OtherManagers == {ManagerNew, ManagerScrolled}

\* line 150: self.anchor = other.anchor
clone_state_anchor == other.anchor

\* line 151: self.ongoing = other.ongoing
clone_state_ongoing == other.ongoing

\* mutant: the whole of other is taken over
clone_state_rest_copied ==
    [autoscroll_request |-> other.autoscroll_request,
     last_autoscroll |-> other.last_autoscroll,
     show_scrollbars |-> other.show_scrollbars,
     hide_scrollbar_task |-> other.hide_scrollbar_task,
     visible_line_count |-> other.visible_line_count,
     vertical_scroll_margin |-> other.vertical_scroll_margin]

\* lines 149-152: every other field of self is left as it is
clone_state_rest ==
    [autoscroll_request |-> autoscroll_request,
     last_autoscroll |-> last_autoscroll,
     show_scrollbars |-> show_scrollbars,
     hide_scrollbar_task |-> hide_scrollbar_task,
     visible_line_count |-> visible_line_count,
     vertical_scroll_margin |-> vertical_scroll_margin]

clone_state ==
    /\ anchor' = clone_state_anchor
    /\ ongoing' = clone_state_ongoing
    /\ autoscroll_request' = clone_state_rest.autoscroll_request
    /\ last_autoscroll' = clone_state_rest.last_autoscroll
    /\ show_scrollbars' = clone_state_rest.show_scrollbars
    /\ hide_scrollbar_task' = clone_state_rest.hide_scrollbar_task
    /\ visible_line_count' = clone_state_rest.visible_line_count
    /\ vertical_scroll_margin' = clone_state_rest.vertical_scroll_margin
    /\ last' = [LastNone EXCEPT !.op = "clone_state"]
    /\ UNCHANGED <<tasks, autohide, display_map, workspace_id, saves, db, now, other>>

\* Editor::set_visible_line_count
set_visible_line_count(lines) ==
    /\ visible_line_count' = <<lines>>
    /\ last' = [LastNone EXCEPT !.op = "set_visible_line_count"]
    /\ UNCHANGED <<anchor, ongoing, autoscroll_request, show_scrollbars,
                   hide_scrollbar_task, tasks, autohide, display_map, workspace_id,
                   saves, db, now, last_autoscroll, vertical_scroll_margin, other>>

\* Editor::set_vertical_scroll_margin
set_vertical_scroll_margin(margin_rows) ==
    /\ vertical_scroll_margin' = margin_rows
    /\ last' = [LastNone EXCEPT !.op = "set_vertical_scroll_margin",
                                !.notified = <<"set_vertical_scroll_margin">>]
    /\ UNCHANGED <<anchor, ongoing, autoscroll_request, show_scrollbars,
                   hide_scrollbar_task, tasks, autohide, display_map, workspace_id,
                   saves, db, now, last_autoscroll, visible_line_count, other>>

\* the layout pass resolves the pending request: it takes the request, scrolls
\* to target (through set_scroll_position, with the request's local flag) when
\* the requested rows are not in view, and records what it applied
autoscroll(target) ==
    /\ autoscroll_request # <<>>
    /\ target # <<>> => (CanSpawnHideTask /\ CanSpawnSave)
    /\ LET request == autoscroll_request[1]
           moved == target # <<>>
           resolved == IF moved THEN new_anchor(target[1], display_map) ELSE anchor
       IN  /\ anchor' = resolved
           /\ autoscroll_request' = <<>>
           /\ show_scrollbars' = (moved \/ show_scrollbars)
           /\ tasks' = IF moved THEN show_scrollbar_tasks ELSE tasks
           /\ hide_scrollbar_task' =
                  IF moved THEN show_scrollbar_handle ELSE hide_scrollbar_task
           /\ saves' = IF moved
                       THEN spawn_save(resolved, new_top_row(target[1], display_map))
                       ELSE saves
           /\ last_autoscroll' =
                  <<[offset |-> resolved.offset, strategy |-> request.autoscroll]>>
           /\ last' = [LastNone EXCEPT
                           !.op = "autoscroll",
                           !.local = request.local,
                           !.had_request = TRUE,
                           !.events = IF moved THEN <<request.local>> ELSE <<>>,
                           !.notified = IF moved
                                        THEN show_scrollbar_notified \o <<"set_anchor">>
                                        ELSE <<>>,
                           !.spawned_save = (moved /\ workspace_id # <<>>)]
    /\ UNCHANGED <<ongoing, autohide, display_map, workspace_id, db, now,
                   visible_line_count, vertical_scroll_margin, other>>

----------------------------------------------------------------------------
(* OngoingScroll *)

Axes == {NoAxis, "Vertical", "Horizontal"}

\* mutant: a tie at the start of a gesture locks Horizontal
filter_axis_tie_horizontal(delta) ==
    LET x == Abs(delta.x)
        y == Abs(delta.y)
        duration == now - ongoing.last_event
    IN  IF duration > SCROLL_EVENT_SEPARATION
        THEN IF x < y THEN "Vertical" ELSE "Horizontal"
        ELSE IF MaxOf(x, y) >= UNLOCK_LOWER_BOUND
        THEN CASE ongoing.axis = "Vertical" ->
                      IF x > y /\ 10 * x >= y * UNLOCK_PERCENT_TENTHS
                      THEN NoAxis ELSE ongoing.axis
               [] ongoing.axis = "Horizontal" ->
                      IF y > x /\ 10 * y >= x * UNLOCK_PERCENT_TENTHS
                      THEN NoAxis ELSE ongoing.axis
               [] OTHER -> ongoing.axis
        ELSE ongoing.axis

\* mutant: the unlock lower bound is exclusive
filter_axis_bound_exclusive(delta) ==
    LET x == Abs(delta.x)
        y == Abs(delta.y)
        duration == now - ongoing.last_event
    IN  IF duration > SCROLL_EVENT_SEPARATION
        THEN IF x <= y THEN "Vertical" ELSE "Horizontal"
        ELSE IF MaxOf(x, y) > UNLOCK_LOWER_BOUND
        THEN CASE ongoing.axis = "Vertical" ->
                      IF x > y /\ 10 * x >= y * UNLOCK_PERCENT_TENTHS
                      THEN NoAxis ELSE ongoing.axis
               [] ongoing.axis = "Horizontal" ->
                      IF y > x /\ 10 * y >= x * UNLOCK_PERCENT_TENTHS
                      THEN NoAxis ELSE ongoing.axis
               [] OTHER -> ongoing.axis
        ELSE ongoing.axis

\* mutant: a lock that gives way moves to the other axis
filter_axis_relocks(delta) ==
    LET x == Abs(delta.x)
        y == Abs(delta.y)
        duration == now - ongoing.last_event
    IN  IF duration > SCROLL_EVENT_SEPARATION
        THEN IF x <= y THEN "Vertical" ELSE "Horizontal"
        ELSE IF MaxOf(x, y) >= UNLOCK_LOWER_BOUND
        THEN CASE ongoing.axis = "Vertical" ->
                      IF x > y /\ 10 * x >= y * UNLOCK_PERCENT_TENTHS
                      THEN "Horizontal" ELSE ongoing.axis
               [] ongoing.axis = "Horizontal" ->
                      IF y > x /\ 10 * y >= x * UNLOCK_PERCENT_TENTHS
                      THEN "Vertical" ELSE ongoing.axis
               [] OTHER -> ongoing.axis
        ELSE ongoing.axis

\* lines 83-112: the axis filter resolves
filter_axis(delta) ==
    LET x == Abs(delta.x)
        y == Abs(delta.y)
        duration == now - ongoing.last_event
    IN  IF duration > SCROLL_EVENT_SEPARATION
        THEN IF x <= y THEN "Vertical" ELSE "Horizontal"
        ELSE IF MaxOf(x, y) >= UNLOCK_LOWER_BOUND
        THEN CASE ongoing.axis = "Vertical" ->
                      IF x > y /\ 10 * x >= y * UNLOCK_PERCENT_TENTHS
                      THEN NoAxis ELSE ongoing.axis
               [] ongoing.axis = "Horizontal" ->
                      IF y > x /\ 10 * y >= x * UNLOCK_PERCENT_TENTHS
                      THEN NoAxis ELSE ongoing.axis
               [] OTHER -> ongoing.axis
        ELSE ongoing.axis

\* lines 114-118: the delta as filter leaves it
filter_delta(delta) ==
    CASE filter_axis(delta) = "Vertical" -> vec2f(0, delta.y)
      [] filter_axis(delta) = "Horizontal" -> vec2f(delta.x, 0)
      [] OTHER -> delta

filter(delta) ==
    /\ last' = [LastNone EXCEPT !.op = "filter", !.delta = delta,
                                !.filtered = filter_delta(delta),
                                !.axis = filter_axis(delta)]
    /\ UNCHANGED <<anchor, ongoing, autoscroll_request, show_scrollbars,
                   hide_scrollbar_task, tasks, autohide, display_map, workspace_id,
                   saves, db, now>>
    /\ UNCHANGED layout_state

update_ongoing_scroll(axis) ==
    /\ ongoing' = [last_event |-> now, axis |-> axis]
    /\ last' = [LastNone EXCEPT !.op = "update_ongoing_scroll", !.axis = axis]
    /\ UNCHANGED <<anchor, autoscroll_request, show_scrollbars, hide_scrollbar_task,
                   tasks, autohide, display_map, workspace_id, saves, db, now>>
    /\ UNCHANGED layout_state

\* a scroll event as the editor's view handles it: the delta is filtered
\* against the ongoing scroll and the axis filter returned is recorded
scroll_event(delta) ==
    /\ ongoing' = [last_event |-> now, axis |-> filter_axis(delta)]
    /\ last' = [LastNone EXCEPT !.op = "scroll_event", !.delta = delta,
                                !.filtered = filter_delta(delta),
                                !.axis = filter_axis(delta),
                                !.was_axis = ongoing.axis,
                                !.within = (now - ongoing.last_event <= SCROLL_EVENT_SEPARATION)]
    /\ UNCHANGED <<anchor, autoscroll_request, show_scrollbars, hide_scrollbar_task,
                   tasks, autohide, display_map, workspace_id, saves, db, now>>
    /\ UNCHANGED layout_state

\* time passes
tick(d) ==
    /\ now + d <= MaxNow
    /\ now' = now + d
    /\ last' = [LastNone EXCEPT !.op = "tick"]
    /\ UNCHANGED <<anchor, ongoing, autoscroll_request, show_scrollbars,
                   hide_scrollbar_task, tasks, autohide, display_map, workspace_id,
                   saves, db>>
    /\ UNCHANGED layout_state

----------------------------------------------------------------------------
(* Inputs *)

XValues == (0 - 1)..MaxX
YValues == (0 - Scale)..MaxY

\* targets of set_scroll_position
Positions == [x : XValues, y : YValues]

\* arguments of set_scroll_anchor and set_scroll_anchor_remote
ScrollAnchors == [top_anchor : Anchors, offset : [x : {0, MaxX}, y : 0..Scale]]

DeltaValues == {0 - 20, 0 - 6, 0, 3, 5, 6, 10, 19, 20}
Deltas == [x : DeltaValues, y : DeltaValues]

TickSteps == {SCROLL_EVENT_SEPARATION \div 2, SCROLL_EVENT_SEPARATION + 1}

Autoscrolls == {"fit", "center"}

----------------------------------------------------------------------------
(* Specifications *)

\* ScrollManager::new; OngoingScroll::new puts last_event one separation back
InitManager ==
    /\ anchor = ScrollAnchorNew
    /\ now = SCROLL_EVENT_SEPARATION
    /\ ongoing = [last_event |-> now - SCROLL_EVENT_SEPARATION, axis |-> NoAxis]
    /\ autoscroll_request = <<>>
    /\ show_scrollbars = TRUE
    /\ hide_scrollbar_task = <<>>
    /\ tasks = <<>>
    /\ saves = <<>>
    /\ db = <<>>
    /\ last_autoscroll = <<>>
    /\ visible_line_count = <<>>
    /\ vertical_scroll_margin = DEFAULT_VERTICAL_SCROLL_MARGIN
    /\ last = LastNone

(* The manager of an editor outside any workspace: scrollbar, hide timer,   *)
(* autoscroll request, clamping.  Targets are few, the timer is free.       *)
Init ==
    /\ InitManager
    /\ other = ManagerNew
    /\ autohide \in BOOLEAN
    /\ workspace_id = <<>>
    /\ display_map = Points

Next ==
    \/ show_scrollbar
    \/ \E id \in 1..MaxTasks : timer_elapsed(id)
    \/ \E id \in 1..MaxTasks : hide_task_runs(id)
    \/ \E b \in BOOLEAN : set_autohide(b)
    \/ \E x \in XValues, y \in {0, Scale + 1}, local \in BOOLEAN :
            set_scroll_position(vec2f(x, y), local)
    \/ \E local \in BOOLEAN : set_scroll_anchor(ScrollAnchorNew, local)
    \/ \E max \in XValues : clamp_scroll_left(max)
    \/ \E a \in Autoscrolls, local \in BOOLEAN : request_autoscroll(a, local)

Spec == Init /\ [][Next]_vars

(* Scroll positions: every target, every snapshot, every anchor argument;   *)
(* auto-hide is off and the editor is outside any workspace.                *)
InitPosition ==
    /\ InitManager
    /\ other = ManagerNew
    /\ autohide = FALSE
    /\ workspace_id = <<>>
    /\ display_map \in Snapshots

NextPosition ==
    \/ \E p \in Positions : set_scroll_position(p, TRUE)
    \/ \E a \in ScrollAnchors, local \in BOOLEAN : set_scroll_anchor(a, local)
    \/ \E max \in XValues : clamp_scroll_left(max)
    \/ \E map \in Snapshots : display_map_changed(map)

SpecPosition == InitPosition /\ [][NextPosition]_vars

(* Persistence: an editor in workspace 1 scrolls vertically while its saves *)
(* complete, in any order, on the background executor.                      *)
InitPersist ==
    /\ InitManager
    /\ other = ManagerNew
    /\ autohide = FALSE
    /\ workspace_id = <<1>>
    /\ display_map \in Snapshots

NextPersist ==
    \/ \E y \in YValues : set_scroll_position(vec2f(0, y), TRUE)
    \/ \E i \in 1..MaxSaves : save_succeeds(i)
    \/ \E i \in 1..MaxSaves : save_fails(i)
    \/ \E fails \in BOOLEAN : Len(saves) < MaxSaves /\ read_scroll_position_from_db(fails)

SpecPersist == InitPersist /\ [][NextPersist]_vars

(* Scroll gestures: filter and update_ongoing_scroll against the clock.     *)
InitFilter ==
    /\ InitManager
    /\ other = ManagerNew
    /\ autohide = FALSE
    /\ workspace_id = <<>>
    /\ display_map = Points

NextFilter ==
    \/ \E d \in TickSteps : tick(d)
    \/ \E delta \in Deltas : filter(delta)
    \/ \E axis \in Axes : update_ongoing_scroll(axis)
    \/ \E delta \in Deltas : scroll_event(delta)

SpecFilter == InitFilter /\ [][NextFilter]_vars

(* Manager state: an editor outside any workspace is scrolled, laid out,     *)
(* clamped and given another manager's state, with auto-hide on.             *)
InitState ==
    /\ InitManager
    /\ other \in OtherManagers
    /\ autohide = TRUE
    /\ workspace_id = <<>>
    /\ display_map = Points

NextState ==
    \/ clone_state
    \/ set_visible_line_count(2 * DEFAULT_VERTICAL_SCROLL_MARGIN)
    \/ set_vertical_scroll_margin(0)
    \/ request_autoscroll("center", TRUE)
    \/ \E target \in {<<>>, <<vec2f(MaxX, Scale + 1)>>} : autoscroll(target)
    \/ \E y \in {0, Scale + 1} : set_scroll_position(vec2f(MaxX, y), TRUE)
    \/ set_scroll_anchor(ManagerScrolled.anchor, TRUE)
    \/ clamp_scroll_left(0)
    \/ \E id \in 1..MaxTasks : timer_elapsed(id)
    \/ \E id \in 1..MaxTasks : hide_task_runs(id)

SpecState == InitState /\ [][NextState]_vars

(* Provenance: an editor in workspace 1 is scrolled locally and by a remote  *)
(* collaborator while autoscroll requests come in and saves complete.        *)
InitProvenance ==
    /\ InitManager
    /\ other = ManagerNew
    /\ autohide \in BOOLEAN
    /\ workspace_id = <<1>>
    /\ display_map = Points

NextProvenance ==
    \/ \E y \in {0, Scale + 1} : set_scroll_position(vec2f(MaxX, y), TRUE)
    \/ \E local \in BOOLEAN : set_scroll_anchor(ManagerScrolled.anchor, local)
    \/ clamp_scroll_left(0)
    \/ clone_state
    \/ request_autoscroll("fit", FALSE)
    \/ \E id \in 1..MaxTasks : timer_elapsed(id)
    \/ \E id \in 1..MaxTasks : hide_task_runs(id)
    \/ \E i \in 1..MaxSaves : save_succeeds(i)
    \/ \E i \in 1..MaxSaves : save_fails(i)

SpecProvenance == InitProvenance /\ [][NextProvenance]_vars

(* Scrollbar lifetime: the editor stays alive, every timer that was started *)
(* elapses and the foreground executor polls every task that was woken.     *)
InitHide ==
    /\ InitManager
    /\ other = ManagerNew
    /\ autohide \in BOOLEAN
    /\ workspace_id = <<>>
    /\ display_map = Points

NextHide ==
    \/ show_scrollbar
    \/ \E id \in 1..MaxTasks : timer_elapsed(id)
    \/ \E id \in 1..MaxTasks : hide_task_runs(id)
    \/ \E b \in BOOLEAN : set_autohide(b)
    \/ \E y \in {0, Scale + 1} : set_scroll_position(vec2f(0, y), TRUE)
    \/ request_autoscroll("fit", TRUE)

SpecHide ==
    /\ InitHide
    /\ [][NextHide]_vars
    /\ \A id \in 1..MaxTasks : WF_vars(timer_elapsed(id)) /\ WF_vars(hide_task_runs(id))

----------------------------------------------------------------------------
(* Claims *)

SetAnchorOps == {"set_scroll_position", "set_scroll_anchor", "set_scroll_anchor_remote"}

\* C1 (SpecPosition): right after set_scroll_position to a target with y > 0,
\* scroll_position against the same snapshot has the target's y, also when
\* 0 < y < 1 falls on display row 0 and when y lies past the last display row.
C1_RoundTrip ==
    (last.op = "set_scroll_position" /\ last.position.y > 0)
        => scroll_position(anchor, display_map).y = last.position.y

\* C1 witness: a fractional target on display row 0 came back, and the anchor
\* sits on row 0 without being the sentinel
C1_Witness ==
    /\ last.op = "set_scroll_position"
    /\ last.position.y > 0
    /\ last.position.y < Scale
    /\ anchor.top_anchor # AnchorMin
    /\ anchor_to_point(anchor.top_anchor) = PointZero
    /\ scroll_position(anchor, display_map).y = last.position.y

\* C2 (SpecPosition): right after set_scroll_position to a target with y <= 0
\* the anchor is the sentinel, offset.y is max(y, 0) = 0 and the top row handed
\* to set_anchor is 0.
C2_TopOfBuffer ==
    (last.op = "set_scroll_position" /\ last.position.y <= 0)
        => /\ anchor.top_anchor = AnchorMin
           /\ anchor.offset.y = MaxOf(last.position.y, 0)
           /\ anchor.offset.y = 0
           /\ last.top_row = 0

\* C2 witness: a negative target was clamped to the top of the buffer
C2_Witness ==
    /\ last.op = "set_scroll_position"
    /\ last.position.y < 0
    /\ anchor.top_anchor = AnchorMin
    /\ anchor.offset.y = 0

\* C8 as stated (SpecPosition): with the sentinel as top_anchor, scroll_position
\* returns offset.y as the vertical position.
C8_SentinelReturnsOffset ==
    anchor.top_anchor = AnchorMin
        => scroll_position(anchor, display_map).y = anchor.offset.y

\* C8 amended (SpecPosition): with the sentinel as top_anchor, scroll_position
\* returns 0 as the vertical position, whatever offset.y is; that is offset.y
\* when the anchor came from construction or from set_scroll_position.
C8_SentinelReturnsZero ==
    anchor.top_anchor = AnchorMin
        => /\ scroll_position(anchor, display_map).y = 0
           /\ last.op \in {"new", "set_scroll_position"}
                  => scroll_position(anchor, display_map).y = anchor.offset.y

\* C8 witness: set_scroll_anchor installed the sentinel with a non-zero offset.y
C8_Witness ==
    /\ last.op \in {"set_scroll_anchor", "set_scroll_anchor_remote"}
    /\ anchor.top_anchor = AnchorMin
    /\ anchor.offset.y > 0
    /\ scroll_position(anchor, display_map).y = 0

\* C3 (Spec): only the hide task held in hide_scrollbar_task, the one the most
\* recent show_scrollbar spawned, turns the scrollbar from visible to hidden; a
\* task superseded by a later show_scrollbar leaves visibility as it is when it
\* is polled, whenever its timer elapsed.
C3_OnlyLatestTimerHides ==
    [][ /\ (show_scrollbars /\ ~show_scrollbars')
            => (last'.op = "hide_task_runs" /\ hide_scrollbar_task = <<last'.task>>)
        /\ (last'.op = "hide_task_runs" /\ hide_scrollbar_task # <<last'.task>>)
            => show_scrollbars' = show_scrollbars ]_vars

\* C3 witness: the latest task hid the scrollbar after a superseded task's
\* timer had elapsed and that task had been polled
C3_Witness ==
    /\ last.op = "hide_task_runs"
    /\ ~show_scrollbars
    /\ hide_scrollbar_task = <<last.task>>
    /\ \E id \in 1..Len(tasks) :
           /\ id < last.task
           /\ tasks[id].dropped
           /\ tasks[id].timer = "elapsed"
           /\ tasks[id].polled

\* how filter's caller sees the clock: filter leaves now and ongoing alone
NewGesture == now - ongoing.last_event > SCROLL_EVENT_SEPARATION

\* C4 (SpecFilter): a filter call more than 28ms after last_event returns
\* Vertical when |x| <= |y| and Horizontal otherwise, whatever axis was stored,
\* and zeroes the other component of the delta.
C4_NewGestureAxis ==
    (last.op = "filter" /\ NewGesture)
        => IF Abs(last.delta.x) <= Abs(last.delta.y)
           THEN last.axis = "Vertical" /\ last.filtered = vec2f(0, last.delta.y)
           ELSE last.axis = "Horizontal" /\ last.filtered = vec2f(last.delta.x, 0)

\* C4 witness: a tie with a non-zero delta, on a state locked Horizontal
C4_Witness ==
    /\ last.op = "filter"
    /\ NewGesture
    /\ ongoing.axis = "Horizontal"
    /\ last.delta.x # 0
    /\ Abs(last.delta.x) = Abs(last.delta.y)
    /\ last.axis = "Vertical"
    /\ last.filtered = vec2f(0, last.delta.y)

\* the unlock test of a lock on one axis: across is the other axis' magnitude
Unlocks(across, along) ==
    /\ MaxOf(across, along) >= UNLOCK_LOWER_BOUND
    /\ across > along
    /\ 10 * across >= 19 * along

\* C5 (SpecFilter): a filter call within 28ms of last_event on a Vertical lock
\* returns None and leaves the delta alone exactly when max(|x|,|y|) >= 6,
\* |x| > |y| and |x| >= 1.9|y|, and else keeps Vertical and zeroes delta.x; the
\* same with x and y swapped on a Horizontal lock.
C5_Unlock ==
    (last.op = "filter" /\ ~NewGesture)
        => LET x == Abs(last.delta.x)
               y == Abs(last.delta.y)
           IN  /\ ongoing.axis = "Vertical"
                   => IF Unlocks(x, y)
                      THEN last.axis = NoAxis /\ last.filtered = last.delta
                      ELSE last.axis = "Vertical"
                           /\ last.filtered = vec2f(0, last.delta.y)
               /\ ongoing.axis = "Horizontal"
                   => IF Unlocks(y, x)
                      THEN last.axis = NoAxis /\ last.filtered = last.delta
                      ELSE last.axis = "Horizontal"
                           /\ last.filtered = vec2f(last.delta.x, 0)

\* C5 witness: (20, 5) unlocks a Vertical lock and passes through
C5_Witness ==
    /\ last.op = "filter"
    /\ ~NewGesture
    /\ ongoing.axis = "Vertical"
    /\ last.delta = vec2f(20, 5)
    /\ last.axis = NoAxis
    /\ last.filtered = vec2f(20, 5)

\* C6 (Spec): clamp_scroll_left(max) returns false and leaves the anchor alone
\* when offset.x <= max, returns true and sets offset.x to max when
\* offset.x > max; top_anchor, offset.y, the autoscroll request, scrollbar
\* visibility and the hide task are unchanged and no event is emitted.
C6_ClampScrollLeft ==
    [][ last'.op = "clamp_scroll_left"
            => /\ anchor.offset.x <= last'.max
                   => (~last'.result /\ anchor' = anchor)
               /\ anchor.offset.x > last'.max
                   => (last'.result /\ anchor'.offset.x = last'.max)
               /\ anchor'.top_anchor = anchor.top_anchor
               /\ anchor'.offset.y = anchor.offset.y
               /\ autoscroll_request' = autoscroll_request
               /\ show_scrollbars' = show_scrollbars
               /\ hide_scrollbar_task' = hide_scrollbar_task
               /\ tasks' = tasks
               /\ last'.events = <<>> ]_vars

\* C6 witness: a clamp that changed offset.x, with a request and a hide timer
\* pending and a non-sentinel anchor
C6_Witness ==
    /\ last.op = "clamp_scroll_left"
    /\ last.result
    /\ anchor.offset.x = last.max
    /\ anchor.top_anchor # AnchorMin
    /\ autoscroll_request # <<>>
    /\ hide_scrollbar_task # <<>>
    /\ show_scrollbars

\* C7 (Spec): right after set_scroll_position, set_scroll_anchor or
\* set_scroll_anchor_remote no autoscroll request is pending.
C7_AutoscrollCleared ==
    last.op \in SetAnchorOps => autoscroll_request = <<>>

\* C7 witness: a remote set_anchor dropped a request that was pending
C7_Witness ==
    /\ last.op = "set_scroll_anchor_remote"
    /\ last.had_request
    /\ autoscroll_request = <<>>

\* C9 (SpecPersist): a save that completes, well or badly and in any order,
\* leaves the anchor and the rest of the manager alone and leaves the saves in
\* flight one fewer; a failed one also leaves the stored row alone; and below
\* the model's bound on saves in flight, pending saves never disable
\* set_scroll_position.
C9_SaveIsolated ==
    /\ [][ last'.op \in {"save_succeeds", "save_fails"}
            => /\ anchor' = anchor
               /\ autoscroll_request' = autoscroll_request
               /\ show_scrollbars' = show_scrollbars
               /\ hide_scrollbar_task' = hide_scrollbar_task
               /\ Len(saves') = Len(saves) - 1
               /\ last'.op = "save_fails" => db' = db ]_vars
    /\ [](Len(saves) < MaxSaves => ENABLED set_scroll_position(vec2f(0, 0), TRUE))

\* C9 witness: a save failed while another was in flight and an earlier one
\* had been stored, neither being the position now in memory
C9_Witness ==
    /\ last.op = "save_fails"
    /\ saves # <<>>
    /\ db # <<>>
    /\ anchor.offset.y # db[1].y
    /\ anchor.offset.y # saves[1].y

\* the buffer row display row r of a snapshot shows; past the end, the last row's
DisplayRowBufferRow(r, map) ==
    LET starts(n) == {p \in map : Cardinality({q \in map : q # p /\ PointLE(q, p)}) = n}
        shown == IF r < Cardinality(map) THEN r ELSE Cardinality(map) - 1
    IN  (CHOOSE p \in starts(shown) : TRUE).row

\* C10 (SpecPersist): right after set_scroll_position((0, y)) with y > 0,
\* anchor().top_row(buffer) is the buffer row of display row floor(y), and so is
\* the top_row of the save the call spawned.
C10_TopRow ==
    (last.op = "set_scroll_position" /\ last.position.y > 0)
        => LET row == DisplayRowBufferRow(last.position.y \div Scale, display_map)
           IN  /\ top_row(anchor) = row
               /\ last.top_row = row
               /\ last.spawned_save
               /\ saves[Len(saves)].top_row = row

\* C10 witness: the first call on a fresh manager landed on a display row whose
\* number is not its buffer row
C10_Witness ==
    /\ last.op = "set_scroll_position"
    /\ last.position.y > 0
    /\ Len(saves) = 1
    /\ db = <<>>
    /\ top_row(anchor) # last.position.y \div Scale
    /\ top_row(anchor) = DisplayRowBufferRow(last.position.y \div Scale, display_map)
    /\ saves[1].top_row = top_row(anchor)

\* the operations that run show_scrollbar: the call itself and set_anchor's callers
ShowScrollbarOps == SetAnchorOps \cup {"show_scrollbar"}

\* C11 (Spec): right after show_scrollbar ran with auto-hide off no hide task is
\* held; and whenever none is held, every task spawned before is cancelled and
\* the scrollbar is visible -- so it stays visible until a show_scrollbar with
\* auto-hide on stores a new task.
C11_AutoHideDisabled ==
    /\ (last.op \in ShowScrollbarOps /\ ~autohide) => hide_scrollbar_task = <<>>
    /\ hide_scrollbar_task = <<>>
           => /\ show_scrollbars
              /\ \A id \in 1..Len(tasks) : task_cancelled(id)

\* C11 witness: a timer pending when show_scrollbar ran with auto-hide off
\* elapsed afterwards, its task was polled, and the scrollbar is still visible
C11_Witness ==
    /\ last.op = "hide_task_runs"
    /\ ~autohide
    /\ hide_scrollbar_task = <<>>
    /\ tasks[last.task].dropped
    /\ tasks[last.task].polled
    /\ show_scrollbars

\* C12 (Spec): show_scrollbar, called directly or by set_anchor, leaves the
\* scrollbar visible and notifies for the visibility change exactly when the
\* scrollbar was hidden before the call.
C12_NotifyOnTransition ==
    [][ last'.op \in ShowScrollbarOps
            => /\ show_scrollbars'
               /\ LET mine == IF last'.op = "show_scrollbar"
                              THEN last'.notified
                              ELSE SubSeq(last'.notified, 1, Len(last'.notified) - 1)
                  IN  mine = IF show_scrollbars THEN <<>> ELSE <<"show_scrollbar">> ]_vars

\* C12 witness: a direct call on a hidden scrollbar notified once
C12_Witness ==
    /\ last.op = "show_scrollbar"
    /\ last.notified = <<"show_scrollbar">>
    /\ show_scrollbars

\* C13 (SpecPersist): a read_scroll_position_from_db that finds no record, or
\* whose lookup fails, changes nothing: anchor, autoscroll request, scrollbar
\* state and saves in flight are as before and no event is emitted. The only
\* set_scroll_anchor calls of SpecPersist are restores, and they happen only
\* with a stored record.
C13_NothingToRestore ==
    [][ /\ last'.op = "read_scroll_position_from_db"
            => /\ last'.lookup \in {"none", "error"}
               /\ last'.lookup = "none" => db = <<>>
               /\ last'.events = <<>>
               /\ last'.notified = <<>>
               /\ UNCHANGED <<anchor, autoscroll_request, show_scrollbars,
                              hide_scrollbar_task, tasks, saves, db>>
        /\ last'.op = "set_scroll_anchor" => db # <<>>
        /\ (db = <<>> /\ last'.op \notin {"set_scroll_position", "save_succeeds", "save_fails"})
            => UNCHANGED <<anchor, autoscroll_request, show_scrollbars, saves>> ]_vars

\* C13 witness: a view never scrolled read the database, found nothing and is
\* still at the default anchor with nothing in flight
C13_Witness ==
    /\ last.op = "read_scroll_position_from_db"
    /\ last.lookup = "none"
    /\ db = <<>>
    /\ anchor = ScrollAnchorNew
    /\ saves = <<>>

\* C16, as claimed (SpecPosition): right after set_scroll_position to (x, y) the
\* anchor's offset.x and the x of scroll_position are x, for every x and y.
C16_HorizontalPassThrough ==
    last.op = "set_scroll_position"
        => /\ anchor.offset.x = last.position.x
           /\ scroll_position(anchor, display_map).x = last.position.x

\* C16, amended (SpecPosition): scroll_position always reports offset.x as it is
\* stored; right after set_scroll_position to (x, y) the stored offset.x is x
\* when y > 0, whatever the sign of x, and max(x, 0) when y <= 0.
C16_HorizontalClampedAtTop ==
    /\ scroll_position(anchor, display_map).x = anchor.offset.x
    /\ last.op = "set_scroll_position"
           => anchor.offset.x = IF last.position.y > 0
                                THEN last.position.x
                                ELSE MaxOf(last.position.x, 0)

\* C16 witness: a target left of the origin at the top of the buffer was stored
\* with offset.x = 0
C16_Witness ==
    /\ last.op = "set_scroll_position"
    /\ last.position.x < 0
    /\ last.position.y <= 0
    /\ anchor.offset.x = 0
    /\ scroll_position(anchor, display_map).x = 0

\* C20 (SpecFilter): a scroll event within 28ms of the previous one never
\* turns a Vertical lock into a Horizontal one or back, and finds no lock only
\* to leave none, with the delta passed through whole; only an event after a
\* longer gap locks an axis afresh.
C20_LockOnlyLoosens ==
    last.op = "scroll_event"
        => /\ ongoing.axis = last.axis
           /\ last.within
                => /\ last.axis \in {last.was_axis, NoAxis}
                   /\ last.was_axis = NoAxis => last.filtered = last.delta
           /\ ~last.within => last.axis # NoAxis

\* C20 witness: within a gesture that had unlocked, a purely vertical event of
\* magnitude 20 found no lock, took none and kept both components
C20_Witness ==
    /\ last.op = "scroll_event"
    /\ last.within
    /\ last.was_axis = NoAxis
    /\ last.delta = vec2f(3, 20)
    /\ last.filtered = vec2f(3, 20)
    /\ ongoing.axis = NoAxis

\* the operations that assign the whole anchor
ReplaceAnchorOps == SetAnchorOps \cup {"clone_state", "autoscroll"}

\* C15 (SpecState): clone_state leaves the receiver with other's anchor and
\* ongoing scroll and with its own autoscroll request, last autoscroll,
\* scrollbar visibility, hide task, visible line count and vertical margin;
\* other is as it was.
C15_CloneState ==
    [][ last'.op = "clone_state"
            => /\ anchor' = other.anchor
               /\ ongoing' = other.ongoing
               /\ UNCHANGED <<autoscroll_request, last_autoscroll, show_scrollbars,
                              hide_scrollbar_task, visible_line_count,
                              vertical_scroll_margin, other>> ]_vars

\* C15 witness: the receiver of a scrolled manager's state differs from it in
\* every field that is not copied
C15_Witness ==
    /\ last.op = "clone_state"
    /\ other = ManagerScrolled
    /\ anchor = other.anchor
    /\ ongoing = other.ongoing
    /\ autoscroll_request # other.autoscroll_request
    /\ last_autoscroll \notin {<<>>, other.last_autoscroll}
    /\ show_scrollbars # other.show_scrollbars
    /\ hide_scrollbar_task \notin {<<>>, other.hide_scrollbar_task}
    /\ visible_line_count = <<>>
    /\ vertical_scroll_margin # other.vertical_scroll_margin

\* C17, as claimed (SpecState): right after set_scroll_position or set_anchor
\* both the pending request and the last autoscroll are empty.
C17_BothCleared ==
    last.op \in SetAnchorOps => (autoscroll_request = <<>> /\ last_autoscroll = <<>>)

\* C17, amended (SpecState): set_scroll_position and set_anchor clear the
\* pending request and leave the last autoscroll as it was.
C17_OnlyRequestCleared ==
    [][ last'.op \in SetAnchorOps
            => /\ autoscroll_request' = <<>>
               /\ last_autoscroll' = last_autoscroll ]_vars

\* C17 witness: an explicit scroll dropped a pending request while the last
\* autoscroll of an earlier layout pass is still recorded
C17_Witness ==
    /\ last.op = "set_scroll_position"
    /\ last.had_request
    /\ autoscroll_request = <<>>
    /\ last_autoscroll # <<>>

\* C18, as claimed (SpecState): the anchor changes only by being replaced
\* whole, by set_scroll_position, set_anchor or clone_state.
C18_ReplacedWhole ==
    [][ anchor' # anchor => last'.op \in ReplaceAnchorOps ]_vars

\* C18, amended (SpecState): the anchor changes only by being replaced whole,
\* or by a clamp_scroll_left whose bound is below offset.x, which overwrites
\* offset.x with the bound and keeps top_anchor and offset.y.
C18_ReplacedOrClamped ==
    [][ anchor' # anchor
            => \/ last'.op \in ReplaceAnchorOps
               \/ /\ last'.op = "clamp_scroll_left"
                  /\ last'.max < anchor.offset.x
                  /\ anchor' = [anchor EXCEPT !.offset.x = last'.max] ]_vars

\* C18 witness: a clamp changed offset.x of an anchor inside the buffer whose
\* offset.y is not zero
C18_Witness ==
    /\ last.op = "clamp_scroll_left"
    /\ last.result
    /\ anchor.top_anchor = ManagerScrolled.anchor.top_anchor
    /\ anchor.offset = vec2f(last.max, ManagerScrolled.anchor.offset.y)

\* C14, as claimed (SpecProvenance): the anchor changes only through set_anchor,
\* with exactly one event; the event says local for set_scroll_position and
\* set_scroll_anchor and not local for set_scroll_anchor_remote.
C14_SingleEntryPoint ==
    [][ /\ anchor' # anchor
            => (last'.op \in SetAnchorOps /\ Len(last'.events) = 1)
        /\ last'.op \in {"set_scroll_position", "set_scroll_anchor"}
            => last'.events = <<TRUE>>
        /\ last'.op = "set_scroll_anchor_remote" => last'.events = <<FALSE>> ]_vars

\* C14, amended (SpecProvenance): set_scroll_position, set_scroll_anchor and
\* set_scroll_anchor_remote each emit exactly one event, not local for the
\* remote call only, and otherwise do the same to the anchor, the autoscroll
\* request, the scrollbar and the saves in flight; the anchor also changes in
\* clamp_scroll_left and clone_state, which emit no event and leave the
\* request, the scrollbar and the saves alone.
C14_Provenance ==
    [][ /\ last'.op \in SetAnchorOps
            => /\ last'.events = <<last'.op # "set_scroll_anchor_remote">>
               /\ autoscroll_request' = <<>>
               /\ show_scrollbars'
               /\ hide_scrollbar_task' = IF autohide THEN <<Len(tasks')>> ELSE <<>>
               /\ \A id \in 1..Len(tasks) : tasks'[id].dropped
               /\ saves' = Append(saves, [top_row |-> last'.top_row,
                                          x |-> anchor'.offset.x,
                                          y |-> anchor'.offset.y])
               /\ last'.op # "set_scroll_position"
                    => (anchor' = ManagerScrolled.anchor /\ last'.top_row = top_row(anchor'))
        /\ anchor' # anchor
            => \/ last'.op \in SetAnchorOps
               \/ /\ last'.op \in {"clamp_scroll_left", "clone_state"}
                  /\ last'.events = <<>>
                  /\ UNCHANGED <<autoscroll_request, show_scrollbars,
                                 hide_scrollbar_task, tasks, saves>> ]_vars

\* C14 witness: a remote set_anchor emitted one event that says not local,
\* dropped a pending request, showed a hidden scrollbar and spawned a save
C14_Witness ==
    /\ last.op = "set_scroll_anchor_remote"
    /\ last.events = <<FALSE>>
    /\ last.had_request
    /\ last.spawned_save
    /\ last.notified = <<"show_scrollbar", "set_anchor">>
    /\ anchor = ManagerScrolled.anchor

\* C19 (SpecHide): while the task a show_scrollbar stored with auto-hide on is
\* the one held and the scrollbar is visible, the scrollbar will be hidden
\* unless another show_scrollbar replaces the task first; and a hidden
\* scrollbar becomes visible only by show_scrollbar, called directly or by
\* set_anchor.
C19_HideLiveness ==
    /\ \A id \in 1..MaxTasks :
           (hide_scrollbar_task = <<id>> /\ show_scrollbars)
               ~> (~show_scrollbars \/ hide_scrollbar_task # <<id>>)
    /\ [][ (~show_scrollbars /\ show_scrollbars') => last'.op \in ShowScrollbarOps ]_vars

\* C19 witness: the one task a set_scroll_position stored was left alone, its
\* timer elapsed, and polling it hid the scrollbar
C19_Witness ==
    /\ last.op = "hide_task_runs"
    /\ autohide
    /\ Len(tasks) = 1
    /\ hide_scrollbar_task = <<1>>
    /\ ~tasks[1].dropped
    /\ ~show_scrollbars
    /\ anchor # ScrollAnchorNew

====
